---- MODULE Spec2Model ----
(***************************************************************************)
(* Model of Organizer.py: a file organizer that sorts the regular files    *)
(* of one working directory into seven category folders by extension,      *)
(* records every move in a ledger file (Sort_Logs/last_undo.log) and can   *)
(* undo the last sort.                                                     *)
(*                                                                         *)
(* Text is modelled as sequences of one-character strings, so that         *)
(* pathlib's suffix/stem, str.lower, str.strip, str.split and the ledger   *)
(* file format are computed as the program computes them.  A path is the   *)
(* sequence of its components below the filesystem root: <<d, n>> is the   *)
(* absolute path /d/n.                                                     *)
(***************************************************************************)
EXTENDS Integers, Sequences, FiniteSets, TLC

VARIABLES
    files,          \* regular files: path -> content
    dirs,           \* directories: set of paths
    undoFile,       \* per working directory: Sort_Logs/last_undo.log
    SOURCE_FOLDER,  \* the module-level working directory
    cwd,            \* the directory the program was started in
    added,          \* name -> how many files of that name the user has placed
    result          \* what the last operation reported and did

vars == <<files, dirs, undoFile, SOURCE_FOLDER, cwd, added, result>>

-----------------------------------------------------------------------------
(* Bounds of the model *)

\* the user places at most this many files in total
MaxAdds == 3
\* the user places at most this many files under one name
MaxVer == 2
\* the configuration file is written anew while fewer than this many copies
\* of it exist
MaxConfigCopies == 1

-----------------------------------------------------------------------------
(* Names *)

Images == <<"I","m","a","g","e","s">>
Videos == <<"V","i","d","e","o","s">>
Music == <<"M","u","s","i","c">>
Documents == <<"D","o","c","u","m","e","n","t","s">>
Programs == <<"P","r","o","g","r","a","m","s">>
Archives == <<"A","r","c","h","i","v","e","s">>
Others == <<"O","t","h","e","r","s">>
ScriptName == <<"o","r","g","a","n","i","z","e","r",".","p","y">>
ConfigName == <<"o","r","g","a","n","i","z","e","r","_","c","o","n","f","i","g",".","t","x","t">>
LogFolderName == <<"S","o","r","t","_","L","o","g","s">>
UndoFileName == <<"l","a","s","t","_","u","n","d","o",".","l","o","g">>
LogFileName == <<"l","o","g","_","T",".","t","x","t">>
NameATxt == <<"a",".","t","x","t">>
NameA1Txt == <<"a","_","1",".","t","x","t">>
NameBPng == <<"b",".","P","N","G">>
NameCTxtSp == <<"c",".","t","x","t"," ">>

\* line 244: the order in which undo prunes the category folders
CategoryList == <<Images, Videos, Music, Documents, Programs, Archives, Others>>
\* line 195
all_categories == {Images, Videos, Music, Documents, Programs, Archives, Others}

\* the two directories the user can choose as working directory, and a
\* directory that is never organized
DirA == <<<<"A">>>>
DirB == <<<<"B">>>>
DirHome == <<<<"H">>>>
WorkDirs == {DirA, DirB}

\* the names under which the user places files in the working directory
UserNames ==
    {NameATxt, NameA1Txt, NameBPng, Images}
\* the same, when the program is installed in the working directory
ColocatedNames == {ScriptName, NameCTxtSp, LogFolderName, Others}
AllNames == UserNames \cup ColocatedNames

-----------------------------------------------------------------------------
(* Text *)

LowerChar(c) ==
    CASE c = "A" -> "a"
      [] c = "B" -> "b"
      [] c = "C" -> "c"
      [] c = "D" -> "d"
      [] c = "E" -> "e"
      [] c = "F" -> "f"
      [] c = "G" -> "g"
      [] c = "H" -> "h"
      [] c = "I" -> "i"
      [] c = "J" -> "j"
      [] c = "K" -> "k"
      [] c = "L" -> "l"
      [] c = "M" -> "m"
      [] c = "N" -> "n"
      [] c = "O" -> "o"
      [] c = "P" -> "p"
      [] c = "Q" -> "q"
      [] c = "R" -> "r"
      [] c = "S" -> "s"
      [] c = "T" -> "t"
      [] c = "U" -> "u"
      [] c = "V" -> "v"
      [] c = "W" -> "w"
      [] c = "X" -> "x"
      [] c = "Y" -> "y"
      [] c = "Z" -> "z"
      [] OTHER -> c

\* str.lower()
Lower(s) == [i \in 1..Len(s) |-> LowerChar(s[i])]

\* one character of str.upper()
UpperChar(c) ==
    CASE c = "a" -> "A"
      [] c = "b" -> "B"
      [] c = "c" -> "C"
      [] c = "d" -> "D"
      [] c = "e" -> "E"
      [] c = "f" -> "F"
      [] c = "g" -> "G"
      [] c = "h" -> "H"
      [] c = "i" -> "I"
      [] c = "j" -> "J"
      [] c = "k" -> "K"
      [] c = "l" -> "L"
      [] c = "m" -> "M"
      [] c = "n" -> "N"
      [] c = "o" -> "O"
      [] c = "p" -> "P"
      [] c = "q" -> "Q"
      [] c = "r" -> "R"
      [] c = "s" -> "S"
      [] c = "t" -> "T"
      [] c = "u" -> "U"
      [] c = "v" -> "V"
      [] c = "w" -> "W"
      [] c = "x" -> "X"
      [] c = "y" -> "Y"
      [] c = "z" -> "Z"
      [] OTHER -> c

\* str.rfind(c), 1-based; 0 when c does not occur
RFind(s, c) ==
    LET I == {i \in 1..Len(s) : s[i] = c}
    IN  IF I = {} THEN 0 ELSE CHOOSE i \in I : \A j \in I : j <= i

\* str.find(c), 1-based; 0 when c does not occur
Find(s, c) ==
    LET I == {i \in 1..Len(s) : s[i] = c}
    IN  IF I = {} THEN 0 ELSE CHOOSE i \in I : \A j \in I : i <= j

\* pathlib's PurePath.suffix: from the last dot, unless the dot is the
\* first or the last character of the name
Suffix(name) ==
    LET i == RFind(name, ".")
    IN  IF 1 < i /\ i < Len(name) THEN SubSeq(name, i, Len(name)) ELSE <<>>

\* pathlib's PurePath.stem
Stem(name) ==
    LET i == RFind(name, ".")
    IN  IF 1 < i /\ i < Len(name) THEN SubSeq(name, 1, i - 1) ELSE name

DigitChar(d) == <<"0", "1", "2", "3", "4", "5", "6", "7", "8", "9">>[d + 1]

\* the decimal digits of i, as the f-string {i} formats them
RECURSIVE IntStr(_)
IntStr(i) ==
    IF i < 10 THEN <<DigitChar(i)>> ELSE IntStr(i \div 10) \o <<DigitChar(i % 10)>>

IsSpace(c) == c \in {" ", "\t", "\n", "\r", "\f"}

\* str.strip(): without the leading and the trailing whitespace
Strip(s) ==
    LET I == {i \in 1..Len(s) : ~ IsSpace(s[i])}
    IN  IF I = {} THEN <<>>
        ELSE SubSeq(s, CHOOSE i \in I : \A j \in I : i <= j,
                       CHOOSE i \in I : \A j \in I : j <= i)

\* the k-th smallest element of a set of positions P; 0 for k = 0
KthPos(P, k) ==
    IF k = 0 THEN 0
    ELSE CHOOSE i \in P : Cardinality({j \in P : j < i}) = k - 1

\* str.split(sep): the pieces between the separators
Split(s, sep) ==
    LET P == {i \in 1..Len(s) : s[i] = sep}
        n == Cardinality(P)
        End(k) == IF k = n + 1 THEN Len(s) + 1 ELSE KthPos(P, k)
    IN  [k \in 1..(n + 1) |-> SubSeq(s, KthPos(P, k - 1) + 1, End(k) - 1)]

\* str.split("|", 1): at most one split, at the first separator
Split1(s) ==
    LET i == Find(s, "|")
    IN  IF i = 0 THEN <<s>>
        ELSE <<SubSeq(s, 1, i - 1), SubSeq(s, i + 1, Len(s))>>

\* iterating a text file: the lines, each with its line break; text after
\* the last line break is a last line
ReadLines(text) ==
    LET P == {i \in 1..Len(text) : text[i] = "\n"}
        n == Cardinality(P)
        terminated == [k \in 1..n |->
                          SubSeq(text, KthPos(P, k - 1) + 1, KthPos(P, k))]
    IN  IF KthPos(P, n) < Len(text)
        THEN Append(terminated, SubSeq(text, KthPos(P, n) + 1, Len(text)))
        ELSE terminated

-----------------------------------------------------------------------------
(* Paths *)

\* str(path) of an absolute path
RECURSIVE PathStr(_)
PathStr(p) ==
    IF p = <<>> THEN <<>> ELSE <<"/">> \o Head(p) \o PathStr(Tail(p))

\* Path(string): empty and "." components are dropped; a string that does
\* not start with "/" is relative to the current directory
ParsePath(s) ==
    LET parts == SelectSeq(Split(s, "/"), LAMBDA x : x # <<>> /\ x # <<".">>)
    IN  IF s # <<>> /\ Head(s) = "/" THEN parts ELSE cwd \o parts

Parent(p) == SubSeq(p, 1, Len(p) - 1)
BaseName(p) == p[Len(p)]

LOG_FOLDER(d) == d \o <<LogFolderName>>
UNDO_FILE(d) == LOG_FOLDER(d) \o <<UndoFileName>>
\* line 20: a relative path, resolved against the current directory
CONFIG_FILE == cwd \o <<ConfigName>>

-----------------------------------------------------------------------------
(* Category detection *)

ImageExts ==
    { <<".","p","n","g">>,
      <<".","j","p","g">>,
      <<".","j","p","e","g">>,
      <<".","g","i","f">>,
      <<".","b","m","p">>,
      <<".","w","e","b","p">>,
      <<".","s","v","g">>,
      <<".","i","c","o">>,
      <<".","t","i","f","f">> }

VideoExts ==
    { <<".","m","p","4">>,
      <<".","m","k","v">>,
      <<".","a","v","i">>,
      <<".","m","o","v">>,
      <<".","w","m","v">>,
      <<".","f","l","v">>,
      <<".","w","e","b","m">>,
      <<".","m","4","v">> }

MusicExts ==
    { <<".","m","p","3">>,
      <<".","w","a","v">>,
      <<".","f","l","a","c">>,
      <<".","a","a","c">>,
      <<".","o","g","g">>,
      <<".","m","4","a">>,
      <<".","w","m","a">> }

DocumentExts ==
    { <<".","p","d","f">>,
      <<".","t","x","t">>,
      <<".","d","o","c">>,
      <<".","d","o","c","x">>,
      <<".","x","l","s">>,
      <<".","x","l","s","x">>,
      <<".","p","p","t">>,
      <<".","p","p","t","x">> }

ProgramExts ==
    { <<".","e","x","e">>,
      <<".","m","s","i">>,
      <<".","d","e","b">>,
      <<".","d","m","g">> }

ArchiveExts ==
    { <<".","z","i","p">>,
      <<".","r","a","r">>,
      <<".","7","z">>,
      <<".","t","a","r">>,
      <<".","g","z">>,
      <<".","b","z","2">> }

\* get_category without the lower() of line 116
get_categoryCaseSensitive(ext) ==
    CASE ext \in ImageExts -> Images
      [] ext \in VideoExts -> Videos
      [] ext \in MusicExts -> Music
      [] ext \in DocumentExts -> Documents
      [] ext \in ProgramExts -> Programs
      [] ext \in ArchiveExts -> Archives
      [] OTHER -> Others

\* get_category putting a dot before an extension that has none
get_categoryDotless(ext) ==
    LET l == Lower(ext)
        e == IF l # <<>> /\ Head(l) = "." THEN l ELSE <<".">> \o l
    IN  CASE e \in ImageExts -> Images
          [] e \in VideoExts -> Videos
          [] e \in MusicExts -> Music
          [] e \in DocumentExts -> Documents
          [] e \in ProgramExts -> Programs
          [] e \in ArchiveExts -> Archives
          [] OTHER -> Others

\* lines 111-146
get_category(ext) ==
    LET e == Lower(ext)
    IN  CASE e \in ImageExts -> Images
          [] e \in VideoExts -> Videos
          [] e \in MusicExts -> Music
          [] e \in DocumentExts -> Documents
          [] e \in ProgramExts -> Programs
          [] e \in ArchiveExts -> Archives
          [] OTHER -> Others

-----------------------------------------------------------------------------
(* The filesystem *)

\* what the files hold: the user's files are told apart by name and version
UserContent(name, ver) == [name |-> name, ver |-> ver]
ConfigContent == [name |-> ConfigName, ver |-> 0]
LogContent == [name |-> LogFileName, ver |-> 0]

Exists(f, ds, p) == p \in DOMAIN f \/ p \in ds

\* the regular files that are immediate entries of directory d
FilesIn(f, d) == {p \in DOMAIN f : Len(p) = Len(d) + 1 /\ Parent(p) = d}

\* any(folder.iterdir()) is false
IsEmptyDir(f, ds, d) ==
    ~ \E p \in DOMAIN f \cup ds : Len(p) = Len(d) + 1 /\ Parent(p) = d

\* Path.mkdir(exist_ok=True): what happens when p is made
Mkdir(f, ds, p) ==
    IF p \in ds THEN "exists"
    ELSE IF p \in DOMAIN f THEN "FileExistsError"
    ELSE IF Parent(p) \in DOMAIN f THEN "NotADirectoryError"
    ELSE IF Parent(p) \notin ds THEN "FileNotFoundError"
    ELSE "created"

MkdirOk(outcome) == outcome \in {"exists", "created"}

\* os.rename of a regular file: the file leaves src and is at dst afterwards,
\* replacing a regular file that was there
MoveFile(f, src, dst) ==
    [q \in (DOMAIN f \ {src}) \cup {dst} |-> IF q = dst THEN f[src] ELSE f[q]]

\* ShutilMove refusing to replace a file that is at the destination
ShutilMoveNoReplace(f, ds, src, dst) ==
    LET real_dst == IF dst \in ds THEN dst \o <<BaseName(src)>> ELSE dst
    IN  IF Exists(f, ds, real_dst)
        THEN [status |-> "FileExistsError", files |-> f]
        ELSE IF Parent(real_dst) \notin ds
        THEN [status |-> "FileNotFoundError", files |-> f]
        ELSE [status |-> "ok", files |-> MoveFile(f, src, real_dst)]

\* shutil.move(src, dst) of a regular file: into dst when dst is a directory
\* (an error if the name is taken there), else a rename onto dst
ShutilMove(f, ds, src, dst) ==
    LET real_dst == IF dst \in ds THEN dst \o <<BaseName(src)>> ELSE dst
    IN  IF dst \in ds /\ Exists(f, ds, real_dst)
        THEN [status |-> "ShutilError", files |-> f]
        ELSE IF Parent(real_dst) \notin ds
        THEN [status |-> "FileNotFoundError", files |-> f]
        ELSE [status |-> "ok", files |-> MoveFile(f, src, real_dst)]

\* all the orders in which a set of entries can be enumerated
Orders(S) ==
    {o \in [1..Cardinality(S) -> S] :
        \A i, j \in 1..Cardinality(S) : i # j => o[i] # o[j]}

-----------------------------------------------------------------------------
(* organize *)

\* lines 179-183: the first <stem>_<i><suffix>, i = 1, 2, ..., that is free
RECURSIVE NextFree(_, _, _, _, _)
NextFree(f, ds, dest_folder, name, i) ==
    LET dest_path ==
            dest_folder \o <<Stem(name) \o <<"_">> \o IntStr(i) \o Suffix(name)>>
    IN  IF Exists(f, ds, dest_path)
        THEN NextFree(f, ds, dest_folder, name, i + 1)
        ELSE dest_path

\* ResolveDest without the existence check of line 178
ResolveDestUnchecked(f, ds, dest_folder, name) == dest_folder \o <<name>>

\* ResolveDest with the counter of line 179 starting at 0
ResolveDestFromZero(f, ds, dest_folder, name) ==
    LET dest_path == dest_folder \o <<name>>
    IN  IF Exists(f, ds, dest_path)
        THEN NextFree(f, ds, dest_folder, name, 0)
        ELSE dest_path

\* lines 175-183
ResolveDest(f, ds, dest_folder, name) ==
    LET dest_path == dest_folder \o <<name>>
    IN  IF Exists(f, ds, dest_path)
        THEN NextFree(f, ds, dest_folder, name, 1)
        ELSE dest_path

\* line 165
Eligible(f, item) == item \in DOMAIN f /\ BaseName(item) # ScriptName

\* a run that has met no exception has run to its end
Finish(st) ==
    IF st.status = "running" THEN [st EXCEPT !.status = "complete"] ELSE st

\* lines 163-192: the loop over the enumerated entries.  The move of the
\* entry `failing` raises OSError (permissions, device error); an exception
\* ends the loop where it is raised.
RECURSIVE Scan(_, _, _, _)
Scan(st, d, order, failing) ==
    IF order = <<>> \/ st.status # "running" THEN st
    ELSE
    LET item == Head(order)
        name == BaseName(item)
    IN  IF ~ Eligible(st.files, item) THEN Scan(st, d, Tail(order), failing)
        ELSE
        LET category == get_category(Suffix(name))
            dest_folder == d \o <<category>>
            mk == Mkdir(st.files, st.dirs, dest_folder)
        IN  IF ~ MkdirOk(mk) THEN [st EXCEPT !.status = mk]
            ELSE
            LET ds2 == st.dirs \cup {dest_folder}
                dest_path == ResolveDest(st.files, ds2, dest_folder, name)
                mv == IF item = failing
                      THEN [status |-> "OSError", files |-> st.files]
                      ELSE ShutilMove(st.files, ds2, item, dest_path)
            IN  IF mv.status # "ok"
                THEN [st EXCEPT !.dirs = ds2, !.status = mv.status,
                                !.failed = item]
                ELSE Scan([st EXCEPT !.files = mv.files,
                                     !.dirs = ds2,
                                     !.moves = Append(@, [new |-> dest_path,
                                                          old |-> item]),
                                     !.count[category] = @ + 1],
                          d, Tail(order), failing)

\* LedgerText with the two fields of a line in the other order
RECURSIVE LedgerTextSwapped(_)
LedgerTextSwapped(moves) ==
    IF moves = <<>> THEN <<>>
    ELSE PathStr(Head(moves).old) \o <<"|">> \o PathStr(Head(moves).new)
            \o <<"\n">> \o LedgerTextSwapped(Tail(moves))

\* lines 204-206: the text of the undo file
RECURSIVE LedgerText(_)
LedgerText(moves) ==
    IF moves = <<>> THEN <<>>
    ELSE PathStr(Head(moves).new) \o <<"|">> \o PathStr(Head(moves).old)
            \o <<"\n">> \o LedgerText(Tail(moves))

\* lines 155-208: one call of organize() on working directory d
OrganizeRun(f, ds, d, order, failing) ==
    LET mk == Mkdir(f, ds, LOG_FOLDER(d))
        st0 == [files |-> f, dirs |-> ds, moves |-> <<>>,
                count |-> [c \in all_categories |-> 0],
                status |-> "running", failed |-> <<>>]
    IN  IF ~ MkdirOk(mk) THEN [st0 EXCEPT !.status = mk]
        ELSE
        LET f1 == [q \in DOMAIN f \cup {LOG_FOLDER(d) \o <<LogFileName>>} |->
                      IF q \in DOMAIN f THEN f[q] ELSE LogContent]
            st == Scan([st0 EXCEPT !.files = f1,
                                   !.dirs = ds \cup {LOG_FOLDER(d)}],
                       d, order, failing)
        IN  Finish(st)

-----------------------------------------------------------------------------
(* undo *)

\* lines 225-241: the loop over the lines of the undo file
RECURSIVE Restore(_, _)
Restore(st, lines) ==
    IF lines = <<>> \/ st.status # "running" THEN st
    ELSE
    LET line == Strip(Head(lines))
    IN  IF line = <<>> THEN Restore(st, Tail(lines))
        ELSE
        LET parts == Split1(line)
        IN  IF Len(parts) < 2 THEN [st EXCEPT !.status = "ValueError"]
            ELSE
            LET new_path == ParsePath(parts[1])
                old_path == ParsePath(parts[2])
                rec == [new |-> new_path, old |-> old_path]
            IN  IF ~ Exists(st.files, st.dirs, new_path)
                THEN Restore([st EXCEPT !.skipped = Append(@, rec)], Tail(lines))
                ELSE IF new_path \in st.dirs
                THEN [st EXCEPT !.status = "DirectoryRecord"]
                ELSE
                LET mk == Mkdir(st.files, st.dirs, Parent(old_path))
                IN  IF ~ MkdirOk(mk) THEN [st EXCEPT !.status = mk]
                    ELSE
                    LET ds2 == st.dirs \cup {Parent(old_path)}
                        mv == ShutilMove(st.files, ds2, new_path, old_path)
                    IN  IF mv.status # "ok"
                        THEN [st EXCEPT !.dirs = ds2, !.status = mv.status]
                        ELSE Restore([st EXCEPT
                                        !.files = mv.files,
                                        !.dirs = ds2,
                                        !.count = @ + 1,
                                        !.restored = Append(@,
                                            [new |-> new_path, old |-> old_path,
                                             content |-> st.files[new_path]])],
                                     Tail(lines))

\* lines 244-247: remove the category folders that are empty
RECURSIVE Prune(_, _, _)
Prune(st, d, names) ==
    IF names = <<>> \/ st.status # "running" THEN st
    ELSE
    LET folder == d \o <<Head(names)>>
    IN  IF ~ Exists(st.files, st.dirs, folder) THEN Prune(st, d, Tail(names))
        ELSE IF folder \in DOMAIN st.files
        THEN [st EXCEPT !.status = "NotADirectoryError"]
        ELSE IF IsEmptyDir(st.files, st.dirs, folder)
        THEN Prune([st EXCEPT !.dirs = @ \ {folder}], d, Tail(names))
        ELSE Prune(st, d, Tail(names))

\* lines 222-252: one call of undo() on working directory d whose undo file
\* exists and holds text
UndoRun(f, ds, d, text) ==
    LET st0 == [files |-> f, dirs |-> ds, count |-> 0, restored |-> <<>>,
                skipped |-> <<>>, status |-> "running"]
        st == Prune(Restore(st0, ReadLines(text)), d, CategoryList)
    IN  Finish(st)

-----------------------------------------------------------------------------
(* State *)

NoLedger == [exists |-> FALSE, text |-> <<>>]

NoResult ==
    [op |-> "none", status |-> "none", moves |-> <<>>, total |-> -1,
     nofiles |-> {}, failed |-> <<>>, restored |-> <<>>, skipped |-> <<>>,
     count |-> 0, fresh |-> FALSE]

TotalAdded == LET RECURSIVE Sum(_)
                  Sum(S) == IF S = {} THEN 0
                            ELSE LET n == CHOOSE n \in S : TRUE
                                 IN  added[n] + Sum(S \ {n})
              IN  Sum(AllNames)

\* SumCounts counting the categories instead of the files
SumCountsDistinct(count) == Cardinality({c \in DOMAIN count : count[c] > 0})

\* lines 200-201: sum(category_count.values())
SumCounts(count) ==
    LET RECURSIVE Sum(_)
        Sum(S) == IF S = {} THEN 0
                  ELSE LET c == CHOOSE c \in S : TRUE
                       IN  count[c] + Sum(S \ {c})
    IN  Sum(DOMAIN count)

\* lines 20-81: the program has started in directory c; the working
\* directory is chosen and the configuration file holds it; the user has
\* placed no file yet
Start(c) ==
    /\ cwd = c
    /\ SOURCE_FOLDER = DirA
    /\ files = [p \in {c \o <<ConfigName>>} |-> ConfigContent]
    /\ dirs = WorkDirs \cup {c}
    /\ undoFile = [d \in WorkDirs |-> NoLedger]
    /\ added = [n \in AllNames |-> 0]
    /\ result = NoResult

\* the program is started from a directory that is not organized
Init == Start(DirHome)

\* the program is started from the directory it organizes
InitColocated == Start(DirA)

\* what organize() reports, from the state its run ends in: the total and
\* the "no files" lines are logged only when the loop has ended normally
OrganizeResult(r, fresh) ==
    LET done == r.status = "complete"
    IN  [NoResult EXCEPT
            !.op = "organize",
            !.status = r.status,
            !.moves = r.moves,
            !.failed = r.failed,
            !.fresh = fresh,
            !.total = IF done THEN SumCounts(r.count) ELSE -1,
            !.nofiles = IF done THEN {c \in all_categories : r.count[c] = 0}
                        ELSE {}]

\* menu choice 1 (lines 290-293): organize() runs from its first line to its
\* return, or to the exception that ends it; the entry whose move fails, if
\* any, is one of Failing
OrganizeWith(Failing) ==
    \E order \in Orders(FilesIn(files, SOURCE_FOLDER)) :
    \E failing \in Failing :
    \E r \in {OrganizeRun(files, dirs, SOURCE_FOLDER, order, failing)} :
        /\ files' = r.files
        /\ dirs' = r.dirs
        /\ undoFile' = IF r.status = "complete"
                       THEN [undoFile EXCEPT ![SOURCE_FOLDER] =
                                [exists |-> TRUE, text |-> LedgerText(r.moves)]]
                       ELSE undoFile
        /\ result' = OrganizeResult(r, \A c \in all_categories :
                                          SOURCE_FOLDER \o <<c>> \notin dirs)
        /\ UNCHANGED <<SOURCE_FOLDER, cwd, added>>

\* organize(), where the move of any one entry, or of none, fails
Organize == OrganizeWith({<<>>} \cup FilesIn(files, SOURCE_FOLDER))

\* organize(), where no move fails
OrganizeReliable == OrganizeWith({<<>>})

\* UndoFileExists without the test of line 218
UndoFileAssumed(d) == TRUE

\* line 218: UNDO_FILE.exists()
UndoFileExists(d) == undoFile[d].exists

\* menu choice 2 or --undo (lines 216-252)
Undo ==
    IF ~ UndoFileExists(SOURCE_FOLDER)
    THEN /\ result' = [NoResult EXCEPT !.op = "undo", !.status = "NoPriorSort"]
         /\ UNCHANGED <<files, dirs, undoFile, SOURCE_FOLDER, cwd, added>>
    ELSE \E r \in {UndoRun(files, dirs, SOURCE_FOLDER,
                           undoFile[SOURCE_FOLDER].text)} :
            /\ files' = r.files
            /\ dirs' = r.dirs
            /\ undoFile' = IF r.status = "complete"
                           THEN [undoFile EXCEPT ![SOURCE_FOLDER] = NoLedger]
                           ELSE undoFile
            /\ result' = [NoResult EXCEPT
                            !.op = "undo",
                            !.status = r.status,
                            !.restored = r.restored,
                            !.skipped = r.skipped,
                            !.count = r.count]
            /\ UNCHANGED <<SOURCE_FOLDER, cwd, added>>

\* menu choice 3 (lines 302-305, 41-71): the user names an existing
\* directory; it is written to the configuration file
ChangeDirectory ==
    \E d \in WorkDirs :
        /\ d \in dirs
        /\ \/ CONFIG_FILE \in DOMAIN files
           \/ Cardinality({p \in DOMAIN files : files[p] = ConfigContent})
                < MaxConfigCopies
        /\ SOURCE_FOLDER' = d
        /\ files' = [q \in DOMAIN files \cup {CONFIG_FILE} |->
                        IF q = CONFIG_FILE THEN ConfigContent ELSE files[q]]
        /\ result' = [NoResult EXCEPT !.op = "chdir"]
        /\ UNCHANGED <<dirs, undoFile, cwd, added>>

\* the user places a new file, under one of the names U, directly in the
\* working directory
AddFileOf(U) ==
    \E name \in U :
        LET p == SOURCE_FOLDER \o <<name>>
        IN  /\ TotalAdded < MaxAdds
            /\ added[name] < MaxVer
            /\ ~ Exists(files, dirs, p)
            /\ files' = [q \in DOMAIN files \cup {p} |->
                            IF q = p THEN UserContent(name, added[name] + 1)
                            ELSE files[q]]
            /\ added' = [added EXCEPT ![name] = @ + 1]
            /\ result' = [NoResult EXCEPT !.op = "user"]
            /\ UNCHANGED <<dirs, undoFile, SOURCE_FOLDER, cwd>>

AddFile == AddFileOf(UserNames)

AddFileColocated == AddFileOf(ColocatedNames)

\* the user deletes a file from a category folder
DeleteFile ==
    \E p \in DOMAIN files :
        /\ Len(p) = 3
        /\ SubSeq(p, 1, 1) \in WorkDirs
        /\ p[2] \in all_categories
        /\ files' = [q \in DOMAIN files \ {p} |-> files[q]]
        /\ result' = [NoResult EXCEPT !.op = "user"]
        /\ UNCHANGED <<dirs, undoFile, SOURCE_FOLDER, cwd, added>>

\* the keys of the mapping of lines 118-144
KnownExts ==
    ImageExts \cup VideoExts \cup MusicExts \cup DocumentExts
        \cup ProgramExts \cup ArchiveExts

\* an extension in every letter case: each set of its positions upper-cased
Variants(e) ==
    {[i \in 1..Len(e) |-> IF i \in U THEN UpperChar(e[i]) ELSE e[i]] :
        U \in SUBSET (1..Len(e))}

\* extensions that are not in the mapping in any letter case
UnknownExts ==
    { <<>>,
      <<".">>,
      <<".","x","y","z">>,
      <<".","P","Y">>,
      <<".","p","n">>,
      <<".","p","n","g","x">>,
      <<".","t","a","r",".","g","z">> }

\* the extensions get_category is called with: the known ones in every
\* letter case, the known ones without their dot, and unknown ones
ClassifyInputs ==
    UNION {Variants(e) : e \in KnownExts}
        \cup {Tail(e) : e \in KnownExts}
        \cup UnknownExts

\* an extension is handed to get_category
InitClassify ==
    /\ cwd = DirHome
    /\ SOURCE_FOLDER = DirA
    /\ files = [p \in {DirHome \o <<ConfigName>>} |-> ConfigContent]
    /\ dirs = WorkDirs \cup {DirHome}
    /\ undoFile = [d \in WorkDirs |-> NoLedger]
    /\ added = [n \in AllNames |-> 0]
    /\ \E e \in ClassifyInputs :
          result = [op |-> "input", ext |-> e, category |-> <<>>]

\* line 168: get_category returns the category of the extension
Classify ==
    /\ result.op = "input"
    /\ result' = [op |-> "classify", ext |-> result.ext,
                  category |-> get_category(result.ext)]
    /\ UNCHANGED <<files, dirs, undoFile, SOURCE_FOLDER, cwd, added>>

NextClassify == Classify

SpecClassify == InitClassify /\ [][NextClassify]_vars

\* the directory in which the file of version v was placed
OriginDir(v) == IF v = 1 THEN DirA ELSE DirB

\* the program has started; the two directories hold files (those of DirA
\* have version 1, those of DirB version 2) and nobody but the program
\* touches them from now on
InitClosed ==
    /\ cwd = DirHome
    /\ SOURCE_FOLDER = DirA
    /\ dirs = WorkDirs \cup {DirHome}
    /\ undoFile = [d \in WorkDirs |-> NoLedger]
    /\ result = NoResult
    /\ \E NA \in SUBSET UserNames : \E NB \in SUBSET UserNames :
          /\ Cardinality(NA) + Cardinality(NB) <= MaxAdds
          /\ files =
                [p \in {DirHome \o <<ConfigName>>}
                        \cup {DirA \o <<n>> : n \in NA}
                        \cup {DirB \o <<n>> : n \in NB} |->
                    IF p = DirHome \o <<ConfigName>> THEN ConfigContent
                    ELSE UserContent(BaseName(p),
                                     IF Parent(p) = DirA THEN 1 ELSE 2)]
          /\ added = [n \in AllNames |->
                        (IF n \in NA THEN 1 ELSE 0) + (IF n \in NB THEN 1 ELSE 0)]

NextClosed ==
    \/ OrganizeReliable
    \/ Undo
    \/ ChangeDirectory

SpecClosed == InitClosed /\ [][NextClosed]_vars

Next ==
    \/ Organize
    \/ Undo
    \/ AddFile
    \/ DeleteFile

Spec == Init /\ [][Next]_vars

NextColocated ==
    \/ Organize
    \/ Undo
    \/ AddFileColocated
    \/ DeleteFile

SpecColocated == InitColocated /\ [][NextColocated]_vars

-----------------------------------------------------------------------------
(* Sanity of the model *)

TypeOK ==
    /\ SOURCE_FOLDER \in WorkDirs
    /\ WorkDirs \subseteq dirs
    /\ \A p \in DOMAIN files : Parent(p) \in dirs /\ p \notin dirs
    /\ \A p \in dirs : Len(p) > 1 => Parent(p) \in dirs
    /\ result.status # "DirectoryRecord"

-----------------------------------------------------------------------------
(* Properties *)

CategoryFolders(d) == {d \o <<c>> : c \in all_categories}

\* p lies in a category folder of the working directory
InCategoryFolder(p) ==
    Len(p) > 2 /\ SubSeq(p, 1, 2) \in CategoryFolders(SOURCE_FOLDER)

Range(s) == {s[k] : k \in 1..Len(s)}

\* the records undo reads from the text of an undo file
Records(text) ==
    SelectSeq([k \in 1..Len(ReadLines(text)) |-> Strip(ReadLines(text)[k])],
              LAMBDA line : line # <<>>)

\* C1: organize and then undo, started with no category folder and with
\* nothing done in between, puts every file back at its original path,
\* leaves no category folder and no undo file (stated for the runs in which
\* no move fails).
C1_RoundTrip ==
    [][(/\ result.op = "organize" /\ result.fresh /\ result.failed = <<>>
        /\ result'.op = "undo") =>
        /\ \A m \in Range(result.moves) :
              m.old \in DOMAIN files' /\ files'[m.old] = files[m.new]
        /\ \A p \in FilesIn(files, SOURCE_FOLDER) :
              p \in DOMAIN files' /\ files'[p] = files[p]
        /\ CategoryFolders(SOURCE_FOLDER) \cap dirs' = {}
        /\ ~ undoFile'[SOURCE_FOLDER].exists]_vars

\* C2: an organize run leaves every file that was in a category folder at
\* its path with its content, moves each file to a path where nothing was,
\* and moves no two files to the same path.
C2_NoOverwrite ==
    [][result'.op = "organize" =>
        /\ \A p \in DOMAIN files :
              InCategoryFolder(p) => p \in DOMAIN files' /\ files'[p] = files[p]
        /\ \A m \in Range(result'.moves) :
              /\ ~ Exists(files, dirs, m.new)
              /\ m.new \in DOMAIN files' /\ files'[m.new] = files[m.old]
        /\ \A i, j \in 1..Len(result'.moves) :
              i # j => result'.moves[i].new # result'.moves[j].new]_vars

\* C2 witness: a run has moved a file whose name was taken in its category
\* folder, and the file that was there is still there.
C2_Witness ==
    /\ result.op = "organize"
    /\ \E m \in Range(result.moves) :
          /\ BaseName(m.new) # BaseName(m.old)
          /\ Parent(m.new) \o <<BaseName(m.old)>> \in DOMAIN files

\* C3: after an organize run the undo file holds exactly one record for each
\* file the run moved, in the order of the moves, and a reported total is
\* the number of records; also when a move of the run failed.
C3_LedgerMirrorsMoves ==
    result.op = "organize" =>
        /\ result.moves # <<>> => undoFile[SOURCE_FOLDER].exists
        /\ undoFile[SOURCE_FOLDER].exists =>
              /\ Len(Records(undoFile[SOURCE_FOLDER].text)) = Len(result.moves)
              /\ \A k \in 1..Len(result.moves) :
                    Records(undoFile[SOURCE_FOLDER].text)[k] =
                        PathStr(result.moves[k].new) \o <<"|">>
                            \o PathStr(result.moves[k].old)
        /\ result.total # -1 => result.total = Len(Records(undoFile[SOURCE_FOLDER].text))

\* C4: a failed move does not end the run: it is reported as the outcome of
\* that file, every other eligible file has been moved, and the undo file
\* holds the moves that succeeded.
C4_FailedMoveDoesNotAbort ==
    (result.op = "organize" /\ result.failed # <<>>) =>
        /\ result.status = "complete"
        /\ \A p \in FilesIn(files, SOURCE_FOLDER) :
              Eligible(files, p) => p = result.failed
        /\ undoFile[SOURCE_FOLDER].exists
        /\ undoFile[SOURCE_FOLDER].text = LedgerText(result.moves)

\* C5: undo without an undo file reports that there is no prior sort and
\* changes no file, no folder and creates no undo file.
C5_UndoWithoutLedger ==
    [][(result'.op = "undo" /\ ~ undoFile[SOURCE_FOLDER].exists) =>
        /\ result'.status = "NoPriorSort"
        /\ files' = files
        /\ dirs' = dirs
        /\ undoFile' = undoFile]_vars

\* C5 witness: undo has reported no prior sort in a directory that holds a
\* category folder.
C5_Witness ==
    /\ result.op = "undo"
    /\ result.status = "NoPriorSort"
    /\ CategoryFolders(SOURCE_FOLDER) \cap dirs # {}

\* C6: undo processes every record of the undo file, and every record whose
\* destination existed when it was processed has its file at the record's
\* original path afterwards.
C6_UndoRestoresExisting ==
    [][(result'.op = "undo" /\ undoFile[SOURCE_FOLDER].exists) =>
        /\ Len(result'.restored) + Len(result'.skipped) =
              Len(Records(undoFile[SOURCE_FOLDER].text))
        /\ \A r \in Range(result'.restored) :
              r.old \in DOMAIN files' /\ files'[r.old] = r.content]_vars

\* C7: an undo that found an undo file leaves none behind.
C7_LedgerConsumed ==
    [][(result'.op = "undo" /\ undoFile[SOURCE_FOLDER].exists) =>
        ~ undoFile'[SOURCE_FOLDER].exists]_vars

\* C8: an undo directly after an organize run returns exactly the files that
\* run moved to their original paths, and the files that earlier runs moved
\* stay in their category folders (stated for the runs in which no move
\* fails).
C8_OnlyLastRunUndone ==
    [][(result.op = "organize" /\ result.failed = <<>> /\ result'.op = "undo") =>
        /\ \A m \in Range(result.moves) :
              m.old \in DOMAIN files' /\ files'[m.old] = files[m.new]
        /\ \A p \in DOMAIN files :
              (InCategoryFolder(p) /\ \A m \in Range(result.moves) : m.new # p)
                  => p \in DOMAIN files' /\ files'[p] = files[p]]_vars

\* C9: an organize run leaves the program's file, the configuration file,
\* the undo file and the log folder with its log files where they are.
C9_NeverMovesOwnState ==
    [][result'.op = "organize" =>
        /\ \A p \in {CONFIG_FILE, cwd \o <<ScriptName>>} :
              p \in DOMAIN files => p \in DOMAIN files' /\ files'[p] = files[p]
        /\ \A d \in WorkDirs :
              /\ undoFile[d].exists => undoFile'[d].exists
              /\ LOG_FOLDER(d) \in dirs => LOG_FOLDER(d) \in dirs'
              /\ \A p \in FilesIn(files, LOG_FOLDER(d)) :
                    p \in DOMAIN files' /\ files'[p] = files[p]]_vars

\* the n-th candidate name for a file: its own name for n = 0, and
\* <stem>_n<suffix> for n > 0
Candidate(folder, name, n) ==
    IF n = 0 THEN folder \o <<name>>
    ELSE folder \o <<Stem(name) \o <<"_">> \o IntStr(n) \o Suffix(name)>>

\* C10: every file an organize run moves goes to its own name in the folder
\* of its category when that path is free, and else to <stem>_N<suffix>
\* with N the smallest integer >= 1 whose path is free at that moment.
C10_CollisionNaming ==
    [][result'.op = "organize" =>
        \A k \in 1..Len(result'.moves) :
        \E m \in {result'.moves[k]} :
        \E folder \in {SOURCE_FOLDER
                          \o <<get_category(Suffix(BaseName(m.old)))>>} :
        \E taken \in {{p \in DOMAIN files \cup dirs : Parent(p) = folder}
                          \cup {result'.moves[j].new : j \in 1..(k - 1)}} :
        \E n \in 0..(Cardinality(taken) + 1) :
            /\ m.new = Candidate(folder, BaseName(m.old), n)
            /\ m.new \notin taken
            /\ \A i \in 0..(n - 1) :
                  Candidate(folder, BaseName(m.old), i) \in taken]_vars

\* C10 witness: a.txt was organized, a new a.txt was placed and organized:
\* Documents holds a.txt and, as a_1.txt, the second a.txt.
C10_Witness ==
    /\ result.op = "organize"
    /\ SOURCE_FOLDER \o <<Documents, NameATxt>> \in DOMAIN files
    /\ SOURCE_FOLDER \o <<Documents, NameA1Txt>> \in DOMAIN files
    /\ files[SOURCE_FOLDER \o <<Documents, NameATxt>>] = UserContent(NameATxt, 1)
    /\ files[SOURCE_FOLDER \o <<Documents, NameA1Txt>>] = UserContent(NameATxt, 2)
    /\ [new |-> SOURCE_FOLDER \o <<Documents, NameA1Txt>>,
        old |-> SOURCE_FOLDER \o <<NameATxt>>] \in Range(result.moves)

\* the state undo is in when it has processed the records of an undo file
\* and has not yet pruned
AfterRecords(f, ds, text) ==
    Restore([files |-> f, dirs |-> ds, count |-> 0, restored |-> <<>>,
             skipped |-> <<>>, status |-> "running"], ReadLines(text))

\* the (destination, original) pairs undo parses from the text of an undo
\* file (lines 227-234)
LedgerPairs(text) ==
    [k \in 1..Len(Records(text)) |->
        [new |-> ParsePath(Split1(Records(text)[k])[1]),
         old |-> ParsePath(Split1(Records(text)[k])[2])]]

\* C11: when undo has processed all records, its pruning removes every
\* category folder that is then an empty folder, leaves every category
\* folder that is not empty, and everything in it, as it is, and removes
\* nothing else.
C11_PruneFrame ==
    [][(result'.op = "undo" /\ undoFile[SOURCE_FOLDER].exists) =>
        \E mid \in {AfterRecords(files, dirs, undoFile[SOURCE_FOLDER].text)} :
            mid.status = "running" =>
                /\ \A folder \in CategoryFolders(SOURCE_FOLDER) \cap mid.dirs :
                      IF IsEmptyDir(mid.files, mid.dirs, folder)
                      THEN folder \notin dirs'
                      ELSE folder \in dirs'
                /\ files' = mid.files
                /\ dirs' \subseteq mid.dirs
                /\ mid.dirs \ dirs' \subseteq CategoryFolders(SOURCE_FOLDER)]_vars

\* C14: when undo finds a regular file at the original path of a record
\* whose destination exists, it moves the recorded file onto that path: the
\* recorded file is at the original path afterwards and the file that was
\* there is nowhere.
C14_UndoOverwritesOriginal ==
    [][(result'.op = "undo" /\ undoFile[SOURCE_FOLDER].exists) =>
        \E pairs \in {LedgerPairs(undoFile[SOURCE_FOLDER].text)} :
        \A k \in 1..Len(pairs) :
            (pairs[k].new \in DOMAIN files /\ pairs[k].old \in DOMAIN files) =>
                /\ pairs[k].old \in DOMAIN files'
                /\ files'[pairs[k].old] = files[pairs[k].new]
                /\ \A q \in DOMAIN files' : files'[q] # files[pairs[k].old]]_vars

\* C14 witness: the first a.txt was organized, a second a.txt was placed in
\* the root, and undo has put the first one back onto it: the second a.txt
\* is nowhere.
C14_Witness ==
    /\ result.op = "undo"
    /\ added[NameATxt] = 2
    /\ \E r \in Range(result.restored) :
          /\ r.old = SOURCE_FOLDER \o <<NameATxt>>
          /\ r.content = UserContent(NameATxt, 1)
          /\ files[r.old] = r.content
    /\ \A q \in DOMAIN files : files[q] # UserContent(NameATxt, 2)

\* C15: an organize run in which no move fails runs to its end, whatever the
\* names of the regular files in the working directory and the order of
\* their enumeration.
C15_OrganizeCompletes ==
    (result.op = "organize" /\ result.failed = <<>>) => result.status = "complete"

\* C18: the undo file an organize run has written holds pairwise distinct
\* destinations and pairwise distinct originals, every original is an
\* immediate entry of the working directory and every destination an
\* immediate entry of the folder of the category of the original's extension.
C18_WellFormedLedger ==
    (result.op = "organize" /\ result.status = "complete") =>
        \E pairs \in {LedgerPairs(undoFile[SOURCE_FOLDER].text)} :
            /\ Len(pairs) = Len(result.moves)
            /\ \A i, j \in 1..Len(pairs) :
                  i # j => pairs[i].new # pairs[j].new /\ pairs[i].old # pairs[j].old
            /\ \A k \in 1..Len(pairs) :
                  /\ Len(pairs[k].old) = Len(SOURCE_FOLDER) + 1
                  /\ Parent(pairs[k].old) = SOURCE_FOLDER
                  /\ Len(pairs[k].new) = Len(SOURCE_FOLDER) + 2
                  /\ Parent(pairs[k].new) =
                        SOURCE_FOLDER
                            \o <<get_category(Suffix(BaseName(pairs[k].old)))>>

\* C18 witness: a run has written an undo file with the records of two files
\* of different categories.
C18_Witness ==
    /\ result.op = "organize"
    /\ result.status = "complete"
    /\ \E i, j \in 1..Len(LedgerPairs(undoFile[SOURCE_FOLDER].text)) :
          Parent(LedgerPairs(undoFile[SOURCE_FOLDER].text)[i].new)
              # Parent(LedgerPairs(undoFile[SOURCE_FOLDER].text)[j].new)

C19_LedgerRoundTrip ==
    (result.op = "organize" /\ result.status = "complete") =>
        LedgerPairs(undoFile[SOURCE_FOLDER].text) = result.moves

\* the category the mapping of lines 118-144 gives for one of its keys
TableCategory(e) ==
    CASE e \in ImageExts -> Images
      [] e \in VideoExts -> Videos
      [] e \in MusicExts -> Music
      [] e \in DocumentExts -> Documents
      [] e \in ProgramExts -> Programs
      [] e \in ArchiveExts -> Archives

\* C12: get_category returns one of the seven categories; for a key of the
\* mapping written in any letter case it returns the category of the key,
\* and for every other extension, the empty one included, it returns Others.
C12_ClassifierTotal ==
    result.op = "classify" =>
        /\ result.category \in all_categories
        /\ \A e \in KnownExts :
              result.ext \in Variants(e) => result.category = TableCategory(e)
        /\ (\A e \in KnownExts : result.ext \notin Variants(e))
              => result.category = Others

\* C12 witness: .PnG has been classified as Images.
C12_Witness ==
    /\ result.op = "classify"
    /\ result.ext = <<".","P","n","G">>
    /\ result.category = Images

\* C13, as claimed: a key of the mapping is classified as its category with
\* its leading dot and also without it.
C13_DotOptional ==
    result.op = "classify" =>
        \A e \in KnownExts :
            (result.ext = e \/ result.ext = Tail(e))
                => result.category = TableCategory(e)

\* C13, amended: a key of the mapping is classified as its category with
\* its leading dot, and as Others without it.
C13_DotRequired ==
    result.op = "classify" =>
        \A e \in KnownExts :
            /\ result.ext = e => result.category = TableCategory(e)
            /\ result.ext = Tail(e) => result.category = Others

\* C13 witness: png, without a dot, has been classified as Others.
C13_Witness ==
    /\ result.op = "classify"
    /\ result.ext = <<"p","n","g">>
    /\ result.category = Others

\* the paths of the users' files
UserPaths(f) == {p \in DOMAIN f : f[p] \notin {ConfigContent, LogContent}}

\* p is d or lies below it
Under(p, d) == Len(p) >= Len(d) /\ SubSeq(p, 1, Len(d)) = d

\* C16: when nobody but the program touches the directories and no move
\* fails, every step of organize, undo and change-directory keeps the users'
\* files: none is lost, none is there twice, and each is at its original
\* path or directly in the folder of the category of its extension below
\* its original directory.
C16_FileConservation ==
    [][/\ {files'[p] : p \in UserPaths(files')} = {files[p] : p \in UserPaths(files)}
       /\ Cardinality(UserPaths(files')) = Cardinality(UserPaths(files))
       /\ \A p \in UserPaths(files') :
             \/ p = OriginDir(files'[p].ver) \o <<files'[p].name>>
             \/ /\ Len(p) = 3
                /\ Parent(p) = OriginDir(files'[p].ver)
                        \o <<get_category(Suffix(files'[p].name))>>]_vars

\* C17: organize and undo touch only the working directory: what lies in
\* any other directory, and its undo file, stay as they are; an undo in a
\* working directory without undo file reports that there is no prior sort;
\* and an undo in a working directory with undo file returns exactly the
\* files of that undo file's records to their original paths and moves no
\* other file.
C17_LedgerScopedToDirectory ==
    [][result'.op \in {"organize", "undo"} =>
        /\ \A d \in WorkDirs \ {SOURCE_FOLDER} :
              /\ undoFile'[d] = undoFile[d]
              /\ \A p \in DOMAIN files \cup DOMAIN files' :
                    Under(p, d) =>
                        p \in DOMAIN files /\ p \in DOMAIN files'
                            /\ files'[p] = files[p]
              /\ \A p \in dirs \cup dirs' :
                    Under(p, d) => p \in dirs /\ p \in dirs'
        /\ (result'.op = "undo" /\ ~ undoFile[SOURCE_FOLDER].exists) =>
              result'.status = "NoPriorSort" /\ files' = files /\ dirs' = dirs
        /\ (result'.op = "undo" /\ undoFile[SOURCE_FOLDER].exists) =>
              \E pairs \in {LedgerPairs(undoFile[SOURCE_FOLDER].text)} :
                  /\ \A k \in 1..Len(pairs) :
                        pairs[k].new \in DOMAIN files =>
                            /\ pairs[k].old \in DOMAIN files'
                            /\ files'[pairs[k].old] = files[pairs[k].new]
                  /\ \A p \in DOMAIN files :
                        (\A k \in 1..Len(pairs) : pairs[k].new # p) =>
                            p \in DOMAIN files' /\ files'[p] = files[p]]_vars

====
